---- MODULE Spec2Model ----
(***************************************************************************)
(* Hist: fuzzy search over shell history.                                  *)
(*   history_loader.py  HistoryLoader: load_history, filter_history,       *)
(*                      _fuzzy_match                                       *)
(*   hist.py            HistUI: run, _interactive_loop, _update_filter,    *)
(*                      _move_selection_up/_down, _execute_command         *)
(*   runner.py          CommandRunner: execute, _log_command               *)
(* A Python str is modelled as a sequence of one-character strings, a list *)
(* of commands as a sequence of such sequences.  Python's 0-based indices  *)
(* are kept (selected_idx, pattern_idx); element k of a list is seq[k+1].  *)
(***************************************************************************)
EXTENDS Naturals, Integers, Sequences, FiniteSets, TLC

(***************************************************************************)
(* Bounds of the model.                                                    *)
(***************************************************************************)
MaxText == 4
MaxPattern == 3
MaxHist == 3
MaxFilterQuery == 2
MaxCommands == 4
MaxSessionCommands == 2
MaxLong == 16
MaxQuery == 2
MaxSourceLines == 2

\* HistUI.max_display
max_display == 15

\* the number of entries of potential_files in _detect_history_files
MaxFiles == 3

(***************************************************************************)
(* Characters.  Letters are the characters of commands and queries ("A"    *)
(* and "B" are the upper-case forms of "a" and "b").                       *)
(***************************************************************************)
Letters == {"a", "b", "A"}

\* str.lower() on one character
LowerChar(c) ==
  CASE c = "A" -> "a"
    [] c = "B" -> "b"
    [] OTHER -> c

\* str.lower()
lower(s) == [i \in 1..Len(s) |-> LowerChar(s[i])]

\* all strings over the alphabet S of length at most n
Strs(S, n) == UNION {[1..k -> S] : k \in 0..n}

\* list.reverse() / reversed()
Reverse(s) == [i \in 1..Len(s) |-> s[Len(s) + 1 - i]]

\* s[:n]
Take(s, n) == IF Len(s) <= n THEN s ELSE SubSeq(s, 1, n)

\* s[:-1]
DropLast(s) == IF Len(s) = 0 THEN s ELSE SubSeq(s, 1, Len(s) - 1)

Range(s) == {s[i] : i \in 1..Len(s)}

(***************************************************************************)
(* HistoryLoader._fuzzy_match: the scan of text with the cursor            *)
(* pattern_idx.  i is the 1-based position of the loop variable char.      *)
(***************************************************************************)
RECURSIVE FuzzyScan(_, _, _, _)
FuzzyScan(text, pattern, i, pattern_idx) ==
  IF i > Len(text)
  THEN pattern_idx = Len(pattern)
  ELSE IF text[i] = pattern[pattern_idx + 1]
       THEN IF pattern_idx + 1 = Len(pattern)
            THEN TRUE
            ELSE FuzzyScan(text, pattern, i + 1, pattern_idx + 1)
       ELSE FuzzyScan(text, pattern, i + 1, pattern_idx)

\* a matcher that only asks that every pattern character occurs in the text
fuzzy_match_unordered(text, pattern) ==
  \A k \in 1..Len(pattern) : \E i \in 1..Len(text) : text[i] = pattern[k]

\* a matcher that lowers both of its arguments itself
fuzzy_match_folding(text, pattern) ==
  IF pattern = <<>> THEN TRUE ELSE FuzzyScan(lower(text), lower(pattern), 1, 0)

_fuzzy_match(text, pattern) ==
  IF pattern = <<>> THEN TRUE ELSE FuzzyScan(text, pattern, 1, 0)

(***************************************************************************)
(* HistoryLoader.filter_history                                            *)
(***************************************************************************)
\* a filter loop that puts each match in front of the earlier ones
RECURSIVE FilterLoopPrepend(_, _, _, _)
FilterLoopPrepend(history, query_lower, i, filtered) ==
  IF i > Len(history)
  THEN filtered
  ELSE IF _fuzzy_match(lower(history[i]), query_lower)
       THEN FilterLoopPrepend(history, query_lower, i + 1, <<history[i]>> \o filtered)
       ELSE FilterLoopPrepend(history, query_lower, i + 1, filtered)

RECURSIVE FilterLoop(_, _, _, _)
FilterLoop(history, query_lower, i, filtered) ==
  IF i > Len(history)
  THEN filtered
  ELSE IF _fuzzy_match(lower(history[i]), query_lower)
       THEN FilterLoop(history, query_lower, i + 1, Append(filtered, history[i]))
       ELSE FilterLoop(history, query_lower, i + 1, filtered)

\* a filter that compares the lowered command with the query as typed
filter_history_query_as_typed(history, query) ==
  IF query = <<>> THEN history ELSE FilterLoop(history, query, 1, <<>>)

filter_history(history, query) ==
  IF query = <<>> THEN history ELSE FilterLoop(history, lower(query), 1, <<>>)

(***************************************************************************)
(* HistoryLoader.load_history, from the list `commands` that the parsers   *)
(* of the history files have produced (in file order, oldest line first).  *)
(***************************************************************************)
\* a loop that never consults `seen`
RECURSIVE DedupLoopNoSeen(_, _, _, _)
DedupLoopNoSeen(rev, i, seen, deduplicated) ==
  IF i > Len(rev)
  THEN deduplicated
  ELSE IF rev[i] # <<>>
       THEN DedupLoopNoSeen(rev, i + 1, seen, Append(deduplicated, rev[i]))
       ELSE DedupLoopNoSeen(rev, i + 1, seen, deduplicated)

\* the loop `for cmd in reversed(commands)`; rev is reversed(commands)
RECURSIVE DedupLoop(_, _, _, _)
DedupLoop(rev, i, seen, deduplicated) ==
  IF i > Len(rev)
  THEN deduplicated
  ELSE IF rev[i] # <<>> /\ rev[i] \notin seen
       THEN DedupLoop(rev, i + 1, seen \cup {rev[i]}, Append(deduplicated, rev[i]))
       ELSE DedupLoop(rev, i + 1, seen, deduplicated)

load_history(commands) == Reverse(DedupLoop(Reverse(commands), 1, {}, <<>>))

(***************************************************************************)
(* The history files.  A file is modelled by the commands that its lines   *)
(* parse to and by fail_at: -1 when it is read to the end, otherwise the   *)
(* number of commands appended before open or the read of a line raises.   *)
(***************************************************************************)
\* a parser that gives nothing back for a file it could not read to the end
parse_history_file_discard(history_file) ==
  IF history_file.fail_at < 0 THEN history_file.commands ELSE <<>>

\* HistoryLoader._parse_history_file: the except clause returns what the
\* loop has appended so far
_parse_history_file(history_file) ==
  IF history_file.fail_at < 0
  THEN history_file.commands
  ELSE Take(history_file.commands, history_file.fail_at)

\* the loop over self.history_files in load_history
RECURSIVE CollectLoop(_, _, _)
CollectLoop(history_files, i, commands) ==
  IF i > Len(history_files)
  THEN commands
  ELSE CollectLoop(history_files, i + 1, commands \o _parse_history_file(history_files[i]))

\* HistoryLoader.load_history from the history files
load_history_files(history_files) == load_history(CollectLoop(history_files, 1, <<>>))

(***************************************************************************)
(* CommandRunner (runner.py).  The environment of a call: log_file is the  *)
(* content of the log, log_fails says that opening or writing the log      *)
(* raises, outcome is what subprocess.run does with the command: it raises *)
(* (the command could not be started) or gives a return code.  The result  *)
(* of a call: the value returned, whether an exception leaves the call,    *)
(* the commands handed to subprocess.run and the log afterwards.           *)
(***************************************************************************)
ReturnCodes == {0, 1, 2, 127}

Outcomes ==
  [raises : {FALSE}, returncode : ReturnCodes] \cup {[raises |-> TRUE, returncode |-> 0]}

\* the log entry of a command: f"[{timestamp}] {command}\n"
LogEntry(command) == <<"timestamp", command>>

\* a _log_command without its try/except
log_command_unguarded(command, log_file, log_fails) ==
  [log |-> IF log_fails THEN log_file ELSE Append(log_file, LogEntry(command)),
   raises |-> log_fails]

\* CommandRunner._log_command
_log_command(command, log_file, log_fails) ==
  [log |-> IF log_fails THEN log_file ELSE Append(log_file, LogEntry(command)),
   raises |-> FALSE]

\* an execute that returns True whenever the command could be started
execute_any_status(command, log, log_file, log_fails, outcome) ==
  LET logged == IF log THEN _log_command(command, log_file, log_fails)
                       ELSE [log |-> log_file, raises |-> FALSE]
  IN IF logged.raises
     THEN [value |-> FALSE, raises |-> TRUE, runs |-> <<>>, log |-> logged.log]
     ELSE [value |-> ~outcome.raises,
           raises |-> FALSE, runs |-> <<command>>, log |-> logged.log]

\* CommandRunner.execute
execute(command, log, log_file, log_fails, outcome) ==
  LET logged == IF log THEN _log_command(command, log_file, log_fails)
                       ELSE [log |-> log_file, raises |-> FALSE]
  IN IF logged.raises
     THEN [value |-> FALSE, raises |-> TRUE, runs |-> <<>>, log |-> logged.log]
     ELSE [value |-> IF outcome.raises THEN FALSE ELSE outcome.returncode = 0,
           raises |-> FALSE, runs |-> <<command>>, log |-> logged.log]

(***************************************************************************)
(* State.                                                                  *)
(*  call, ret, returned: one call of a HistoryLoader method, its arguments *)
(*      and its return value (specification SpecLoader).                   *)
(*  The rest is one run of the tool (specification Spec):                  *)
(*  parsed          the commands the history files parse to, in file order *)
(*  history, query, selected_idx, filtered_history   fields of HistUI      *)
(*  pc              position in HistUI.run / _interactive_loop             *)
(*  termios         the mode of the terminal device                        *)
(*  old_settings    local of _interactive_loop                             *)
(*  char, next1, next2   bytes read by the current loop iteration          *)
(*  eof             the input stream has ended (read(1) returns '')        *)
(*  raised          the exception that ended the loop, "none" if none      *)
(*  executed        the commands handed to CommandRunner.execute           *)
(*  keys            the key events so far, while they are printable        *)
(*                  characters followed by backspaces: how many of each;   *)
(*                  typed = -1 after any other sequence of events          *)
(*  exec_ok         what runner.execute returned: "true", "false", or      *)
(*                  "none" before the call                                 *)
(*  exit_status     the status the process exits with, -1 while running    *)
(*  empty_reads     the number of loop iterations whose read(1) returned   *)
(*                  '', modulo 2                                           *)
(***************************************************************************)
VARIABLES call, ret, returned,
          parsed, history, query, selected_idx, filtered_history,
          pc, termios, old_settings, char, next1, next2, eof,
          raised, executed, exec_ok, exit_status, keys, empty_reads

callVars == <<call, ret, returned>>
uiVars == <<parsed, history, query, selected_idx, filtered_history,
            pc, termios, old_settings, char, next1, next2, eof,
            raised, executed, exec_ok, exit_status, keys, empty_reads>>
vars == <<callVars, uiVars>>

(***************************************************************************)
(* Inputs.                                                                 *)
(***************************************************************************)
\* commands that histories are made of
CmdPool == {<<"a", "b">>, <<"A", "b">>, <<"b", "a">>, <<"a", "A", "b">>}

\* what the parsers return: commands, and the empty string of a blank line
ParsedPool == {<<>>, <<"a", "b">>, <<"A", "b">>, <<"b", "a">>}

MatchCalls ==
  [fn : {"_fuzzy_match"}, text : Strs(Letters, MaxText), pattern : Strs(Letters, MaxPattern)]

FilterCalls ==
  [fn : {"filter_history"}, history : Strs(CmdPool, MaxHist), query : Strs(Letters, MaxFilterQuery)]

LoadCalls ==
  [fn : {"load_history"}, commands : Strs(ParsedPool, MaxCommands)]

\* commands of the lines of a history file
LinePool == {<<"a", "b">>, <<"b", "a">>}

HistoryFiles ==
  {f \in [commands : Strs(LinePool, MaxSourceLines), fail_at : -1..MaxSourceLines] :
     f.fail_at <= Len(f.commands)}

LoadFilesCalls ==
  [fn : {"load_history_files"}, history_files : Strs(HistoryFiles, MaxFiles)]

\* the run of the tool has not started
UiIdle ==
  /\ parsed = <<>>
  /\ history = <<>>
  /\ query = <<>>
  /\ selected_idx = 0
  /\ filtered_history = <<>>
  /\ pc = "idle"
  /\ termios = "cooked"
  /\ old_settings = "unset"
  /\ char = "none"
  /\ next1 = "none"
  /\ next2 = "none"
  /\ eof = FALSE
  /\ raised = "none"
  /\ executed = <<>>
  /\ exec_ok = "none"
  /\ exit_status = -1
  /\ keys = [typed |-> 0, erased |-> 0]
  /\ empty_reads = 0

(***************************************************************************)
(* SpecLoader: one call of a HistoryLoader method on arguments drawn from  *)
(* the bounded sets above.                                                 *)
(***************************************************************************)
InitLoader ==
  /\ call \in MatchCalls \cup FilterCalls \cup LoadCalls \cup LoadFilesCalls
  /\ ret = FALSE
  /\ returned = FALSE
  /\ UiIdle

CallFuzzyMatch ==
  /\ ~returned
  /\ call.fn = "_fuzzy_match"
  /\ ret' = _fuzzy_match(call.text, call.pattern)
  /\ returned' = TRUE
  /\ UNCHANGED <<call, uiVars>>

CallFilterHistory ==
  /\ ~returned
  /\ call.fn = "filter_history"
  /\ ret' = filter_history(call.history, call.query)
  /\ returned' = TRUE
  /\ UNCHANGED <<call, uiVars>>

CallLoadHistory ==
  /\ ~returned
  /\ call.fn = "load_history"
  /\ ret' = load_history(call.commands)
  /\ returned' = TRUE
  /\ UNCHANGED <<call, uiVars>>

CallLoadHistoryFiles ==
  /\ ~returned
  /\ call.fn = "load_history_files"
  /\ ret' = load_history_files(call.history_files)
  /\ returned' = TRUE
  /\ UNCHANGED <<call, uiVars>>

NextLoader ==
  \/ CallFuzzyMatch
  \/ CallFilterHistory
  \/ CallLoadHistory
  \/ CallLoadHistoryFiles

SpecLoader == InitLoader /\ [][NextLoader]_vars

(***************************************************************************)
(* SpecRunner: one call of CommandRunner.execute.                          *)
(***************************************************************************)
\* what the log file holds before the call
LogFiles == {<<>>, <<LogEntry(<<"a", "b">>)>>}

ExecuteCalls ==
  [fn : {"execute"}, command : CmdPool, log : BOOLEAN, log_file : LogFiles,
   log_fails : BOOLEAN, outcome : Outcomes]

InitRunner ==
  /\ call \in ExecuteCalls
  /\ ret = FALSE
  /\ returned = FALSE
  /\ UiIdle

CallExecute ==
  /\ ~returned
  /\ call.fn = "execute"
  /\ ret' = execute(call.command, call.log, call.log_file, call.log_fails, call.outcome)
  /\ returned' = TRUE
  /\ UNCHANGED <<call, uiVars>>

NextRunner == CallExecute

SpecRunner == InitRunner /\ [][NextRunner]_vars

(***************************************************************************)
(* Spec: one run of the tool, HistUI.run.                                  *)
(***************************************************************************)
\* commands of the history files of a run
SessionPool == {<<>>, <<"a", "b">>, <<"b", "a">>}

\* the i-th command of a long history file: i written in binary with the
\* digits a and b, lowest digit first
LongCmd(i) == [k \in 1..5 |-> IF (i \div (2 ^ (k - 1))) % 2 = 1 THEN "b" ELSE "a"]

\* a history file of MaxLong different commands
LongParsed == [i \in 1..MaxLong |-> LongCmd(i)]

\* what sys.stdin.read(1) returns: 0x03, 0x1b, \r, \n, 0x7f, a byte that is
\* not printable, '' at the end of input, and the printable [, A and B
Bytes == {"ETX", "ESC", "CR", "LF", "DEL", "NUL", "EOF", "[", "A", "B"}

\* the bytes c with c.isprintable(), '' apart
Printable == {"[", "A", "B"}

\* the bytes read as next1 and next2
EscBytes == {"[", "A", "B", "ETX", "EOF"}

TermModes == {"cooked", "cbreak"}

\* read(1) can return b: once the input has ended it returns '' only
CanRead(b) == eof => b = "EOF"

Max(a, b) == IF a >= b THEN a ELSE b

\* the key events so far are not some characters followed by backspaces
OtherKeys == [typed |-> -1, erased |-> 0]

Init ==
  /\ call = [fn |-> "none"]
  /\ ret = FALSE
  /\ returned = FALSE
  /\ parsed \in Strs(SessionPool, MaxSessionCommands) \cup {LongParsed}
  /\ history = <<>>
  /\ query = <<>>
  /\ selected_idx = 0
  /\ filtered_history = <<>>
  /\ pc = "start"
  /\ termios \in TermModes
  /\ old_settings = "unset"
  /\ char = "none"
  /\ next1 = "none"
  /\ next2 = "none"
  /\ eof = FALSE
  /\ raised = "none"
  /\ executed = <<>>
  /\ exec_ok = "none"
  /\ exit_status = -1
  /\ keys = [typed |-> 0, erased |-> 0]
  /\ empty_reads = 0

\* a run that enters the loop without looking at the history
RunNoCheck ==
  /\ pc = "start"
  /\ history' = load_history(parsed)
  /\ filtered_history' = Take(history', max_display)
  /\ pc' = "enter"
  /\ UNCHANGED <<callVars, empty_reads, keys, parsed, query, selected_idx, termios, old_settings,
                 char, next1, next2, eof, raised, executed, exec_ok, exit_status>>

\* HistUI.run up to the call of _interactive_loop
Run ==
  /\ pc = "start"
  /\ history' = load_history(parsed)
  /\ IF history' = <<>>
     THEN /\ exit_status' = 1
          /\ pc' = "exited"
          /\ UNCHANGED filtered_history
     ELSE /\ filtered_history' = Take(history', max_display)
          /\ pc' = "enter"
          /\ UNCHANGED exit_status
  /\ UNCHANGED <<callVars, empty_reads, keys, parsed, query, selected_idx, termios, old_settings,
                 char, next1, next2, eof, raised, executed, exec_ok>>

\* termios.tcgetattr raises (stdin is no terminal): the try is not entered
GetAttrFails ==
  /\ pc = "enter"
  /\ raised' = "Exception"
  /\ pc' = "left"
  /\ UNCHANGED <<callVars, empty_reads, keys, parsed, history, query, selected_idx, filtered_history,
                 termios, old_settings, char, next1, next2, eof, executed, exec_ok, exit_status>>

\* old_settings = tcgetattr(fd); try: tty.setraw(fd)
EnterLoop ==
  /\ pc = "enter"
  /\ old_settings' = termios
  /\ termios' = "raw"
  /\ pc' = "loop"
  /\ UNCHANGED <<callVars, empty_reads, keys, parsed, history, query, selected_idx, filtered_history,
                 char, next1, next2, eof, raised, executed, exec_ok, exit_status>>

\* tty.setraw raises inside the try
SetRawFails ==
  /\ pc = "enter"
  /\ old_settings' = termios
  /\ raised' = "Exception"
  /\ pc' = "finally"
  /\ UNCHANGED <<callVars, empty_reads, keys, parsed, history, query, selected_idx, filtered_history,
                 termios, char, next1, next2, eof, executed, exec_ok, exit_status>>

\* an _update_filter that keeps the list when the query has become empty
update_filter_keep_on_empty(q) ==
  /\ filtered_history' = IF q # <<>> THEN filter_history(history, q) ELSE filtered_history
  /\ selected_idx' = IF selected_idx >= Len(filtered_history')
                     THEN Max(0, Len(filtered_history') - 1)
                     ELSE selected_idx

\* HistUI._update_filter, q being self.query as just assigned
_update_filter(q) ==
  /\ filtered_history' = IF q # <<>> THEN filter_history(history, q) ELSE history
  /\ selected_idx' = IF selected_idx >= Len(filtered_history')
                     THEN Max(0, Len(filtered_history') - 1)
                     ELSE selected_idx

_move_selection_up ==
  selected_idx' = IF selected_idx > 0 THEN selected_idx - 1 ELSE selected_idx

\* a move down that does not look at the length of the list
move_selection_down_unguarded ==
  selected_idx' = selected_idx + 1

_move_selection_down ==
  selected_idx' = IF selected_idx < Len(filtered_history) - 1
                  THEN selected_idx + 1
                  ELSE selected_idx

\* a Ctrl+C byte that is dropped like any other control byte
KeyCtrlCDropped ==
  /\ pc = "loop"
  /\ keys' = OtherKeys
  /\ CanRead("ETX")
  /\ char' = "ETX"
  /\ next1' = "none"
  /\ next2' = "none"
  /\ UNCHANGED <<callVars, empty_reads, parsed, history, query, selected_idx, filtered_history,
                 pc, termios, old_settings, eof, raised, executed, exec_ok, exit_status>>

\* char == '\x03': raise KeyboardInterrupt
KeyCtrlC ==
  /\ pc = "loop"
  /\ keys' = OtherKeys
  /\ CanRead("ETX")
  /\ char' = "ETX"
  /\ next1' = "none"
  /\ next2' = "none"
  /\ raised' = "KeyboardInterrupt"
  /\ pc' = "finally"
  /\ UNCHANGED <<callVars, empty_reads, parsed, history, query, selected_idx, filtered_history,
                 termios, old_settings, eof, executed, exec_ok, exit_status>>

\* an escape branch with the two arrows exchanged
KeyEscapeSwapped ==
  /\ pc = "loop"
  /\ keys' = OtherKeys
  /\ CanRead("ESC")
  /\ \E n1, n2 \in EscBytes :
       /\ n1 = "EOF" => n2 = "EOF"
       /\ char' = "ESC"
       /\ next1' = n1
       /\ next2' = n2
       /\ eof' = (n2 = "EOF")
       /\ IF n1 = "[" /\ n2 = "A" THEN _move_selection_down
          ELSE IF n1 = "[" /\ n2 = "B" THEN _move_selection_up
          ELSE UNCHANGED selected_idx
  /\ UNCHANGED <<callVars, empty_reads, parsed, history, query, filtered_history,
                 pc, termios, old_settings, raised, executed, exec_ok, exit_status>>

\* char == '\x1b': two more bytes are read, ESC [ A and ESC [ B move
KeyEscape ==
  /\ pc = "loop"
  /\ keys' = OtherKeys
  /\ CanRead("ESC")
  /\ \E n1, n2 \in EscBytes :
       /\ n1 = "EOF" => n2 = "EOF"
       /\ char' = "ESC"
       /\ next1' = n1
       /\ next2' = n2
       /\ eof' = (n2 = "EOF")
       /\ IF n1 = "[" /\ n2 = "A" THEN _move_selection_up
          ELSE IF n1 = "[" /\ n2 = "B" THEN _move_selection_down
          ELSE UNCHANGED selected_idx
  /\ UNCHANGED <<callVars, empty_reads, parsed, history, query, filtered_history,
                 pc, termios, old_settings, raised, executed, exec_ok, exit_status>>

\* an Enter that leaves the loop also when there is nothing to run
KeyEnterBreaksOnEmpty ==
  /\ pc = "loop"
  /\ keys' = OtherKeys
  /\ \E c \in {"CR", "LF"} :
       /\ CanRead(c)
       /\ char' = c
  /\ next1' = "none"
  /\ next2' = "none"
  /\ IF filtered_history # <<>> /\ 0 <= selected_idx /\ selected_idx < Len(filtered_history)
     THEN /\ executed' = Append(executed, filtered_history[selected_idx + 1])
          /\ \E log_fails \in BOOLEAN, outcome \in Outcomes :
               exec_ok' = IF execute(filtered_history[selected_idx + 1], TRUE, <<>>,
                                     log_fails, outcome).value
                          THEN "true" ELSE "false"
          /\ pc' = "finally"
     ELSE /\ pc' = "finally"
          /\ UNCHANGED <<executed, exec_ok>>
  /\ UNCHANGED <<callVars, empty_reads, parsed, history, query, selected_idx, filtered_history,
                 termios, old_settings, eof, raised, exit_status>>

\* an Enter that runs the command and goes on reading
KeyEnterNoBreak ==
  /\ pc = "loop"
  /\ keys' = OtherKeys
  /\ \E c \in {"CR", "LF"} :
       /\ CanRead(c)
       /\ char' = c
  /\ next1' = "none"
  /\ next2' = "none"
  /\ IF filtered_history # <<>> /\ 0 <= selected_idx /\ selected_idx < Len(filtered_history)
     THEN /\ executed' = Append(executed, filtered_history[selected_idx + 1])
          /\ \E log_fails \in BOOLEAN, outcome \in Outcomes :
               exec_ok' = IF execute(filtered_history[selected_idx + 1], TRUE, <<>>,
                                     log_fails, outcome).value
                          THEN "true" ELSE "false"
     ELSE UNCHANGED <<executed, exec_ok>>
  /\ UNCHANGED <<callVars, empty_reads, parsed, history, query, selected_idx, filtered_history,
                 pc, termios, old_settings, eof, raised, exit_status>>

\* char == '\r' or char == '\n': _execute_command(filtered_history[selected_idx])
\* and break, when there is a selection
KeyEnter ==
  /\ pc = "loop"
  /\ keys' = OtherKeys
  /\ \E c \in {"CR", "LF"} :
       /\ CanRead(c)
       /\ char' = c
  /\ next1' = "none"
  /\ next2' = "none"
  /\ IF filtered_history # <<>> /\ 0 <= selected_idx /\ selected_idx < Len(filtered_history)
     THEN /\ executed' = Append(executed, filtered_history[selected_idx + 1])
          /\ \E log_fails \in BOOLEAN, outcome \in Outcomes :
               exec_ok' = IF execute(filtered_history[selected_idx + 1], TRUE, <<>>,
                                     log_fails, outcome).value
                          THEN "true" ELSE "false"
          /\ pc' = "finally"
     ELSE UNCHANGED <<executed, exec_ok, pc>>
  /\ UNCHANGED <<callVars, empty_reads, parsed, history, query, selected_idx, filtered_history,
                 termios, old_settings, eof, raised, exit_status>>

\* a backspace that recomputes the filter also when the query is empty
KeyBackspaceAlwaysUpdates ==
  /\ pc = "loop"
  /\ keys' = IF keys.typed >= 1 /\ keys.erased < keys.typed
             THEN [typed |-> keys.typed, erased |-> keys.erased + 1]
             ELSE OtherKeys
  /\ CanRead("DEL")
  /\ char' = "DEL"
  /\ next1' = "none"
  /\ next2' = "none"
  /\ query' = DropLast(query)
  /\ _update_filter(query')
  /\ UNCHANGED <<callVars, empty_reads, parsed, history, pc, termios, old_settings, eof,
                 raised, executed, exec_ok, exit_status>>

\* char == '\x7f'
KeyBackspace ==
  /\ pc = "loop"
  /\ keys' = IF keys.typed >= 1 /\ keys.erased < keys.typed
             THEN [typed |-> keys.typed, erased |-> keys.erased + 1]
             ELSE OtherKeys
  /\ CanRead("DEL")
  /\ char' = "DEL"
  /\ next1' = "none"
  /\ next2' = "none"
  /\ IF query # <<>>
     THEN /\ query' = DropLast(query)
          /\ _update_filter(query')
     ELSE UNCHANGED <<query, filtered_history, selected_idx>>
  /\ UNCHANGED <<callVars, empty_reads, parsed, history, pc, termios, old_settings, eof,
                 raised, executed, exec_ok, exit_status>>

\* char.isprintable() with a character read
KeyPrintable ==
  /\ pc = "loop"
  /\ keys' = IF keys.typed >= 0 /\ keys.erased = 0
             THEN [typed |-> keys.typed + 1, erased |-> 0]
             ELSE OtherKeys
  /\ Len(query) < MaxQuery
  /\ \E c \in Printable :
       /\ CanRead(c)
       /\ char' = c
       /\ query' = Append(query, c)
       /\ _update_filter(query')
  /\ next1' = "none"
  /\ next2' = "none"
  /\ UNCHANGED <<callVars, empty_reads, parsed, history, pc, termios, old_settings, eof,
                 raised, executed, exec_ok, exit_status>>

\* read(1) returns '' at the end of input; ''.isprintable() is True, so
\* self.query += '' and _update_filter() run
KeyEndOfInput ==
  /\ pc = "loop"
  /\ keys' = OtherKeys
  /\ char' = "EOF"
  /\ eof' = TRUE
  /\ next1' = "none"
  /\ next2' = "none"
  /\ _update_filter(query)
  /\ empty_reads' = 1 - empty_reads
  /\ UNCHANGED <<callVars, parsed, history, query, pc, termios, old_settings,
                 raised, executed, exec_ok, exit_status>>

\* any other byte: no branch of the if chain is taken
KeyOther ==
  /\ pc = "loop"
  /\ keys' = OtherKeys
  /\ CanRead("NUL")
  /\ char' = "NUL"
  /\ next1' = "none"
  /\ next2' = "none"
  /\ UNCHANGED <<callVars, empty_reads, parsed, history, query, selected_idx, filtered_history,
                 pc, termios, old_settings, eof, raised, executed, exec_ok, exit_status>>

\* an exception leaves the loop body (console output or the read fails)
LoopRaises ==
  /\ pc = "loop"
  /\ raised' = "Exception"
  /\ pc' = "finally"
  /\ UNCHANGED <<callVars, empty_reads, keys, parsed, history, query, selected_idx, filtered_history,
                 termios, old_settings, char, next1, next2, eof, executed, exec_ok, exit_status>>

\* a restore that only runs when the loop ends by break
FinallyOnBreakOnly ==
  /\ pc = "finally"
  /\ termios' = IF raised = "none" THEN old_settings ELSE termios
  /\ pc' = "left"
  /\ UNCHANGED <<callVars, empty_reads, keys, parsed, history, query, selected_idx, filtered_history,
                 old_settings, char, next1, next2, eof, raised, executed, exec_ok, exit_status>>

\* finally: termios.tcsetattr(fd, termios.TCSADRAIN, old_settings)
Finally ==
  /\ pc = "finally"
  /\ termios' = old_settings
  /\ pc' = "left"
  /\ UNCHANGED <<callVars, empty_reads, keys, parsed, history, query, selected_idx, filtered_history,
                 old_settings, char, next1, next2, eof, raised, executed, exec_ok, exit_status>>

\* an exit that passes a failure of the executed command on as status 1
RunExitCommandStatus ==
  /\ pc = "left"
  /\ exit_status' = IF raised = "Exception" \/ exec_ok = "false" THEN 1 ELSE 0
  /\ pc' = "exited"
  /\ UNCHANGED <<callVars, empty_reads, keys, parsed, history, query, selected_idx, filtered_history,
                 termios, old_settings, char, next1, next2, eof, raised, executed, exec_ok>>

\* HistUI.run after _interactive_loop, and main: KeyboardInterrupt is caught
\* and sys.exit(0) called, a return ends the process with status 0, any
\* other exception ends it with status 1
RunExit ==
  /\ pc = "left"
  /\ exit_status' = IF raised = "Exception" THEN 1 ELSE 0
  /\ pc' = "exited"
  /\ UNCHANGED <<callVars, empty_reads, keys, parsed, history, query, selected_idx, filtered_history,
                 termios, old_settings, char, next1, next2, eof, raised, executed, exec_ok>>

Next ==
  \/ Run
  \/ GetAttrFails
  \/ EnterLoop
  \/ SetRawFails
  \/ KeyCtrlC
  \/ KeyEscape
  \/ KeyEnter
  \/ KeyBackspace
  \/ KeyPrintable
  \/ KeyEndOfInput
  \/ KeyOther
  \/ LoopRaises
  \/ Finally
  \/ RunExit

Spec == Init /\ [][Next]_vars

\* the steps that do not wait for the user: the statements of run and of
\* _interactive_loop outside the read, and a read(1) at the end of input,
\* which returns '' at once
Scheduled ==
  \/ Run
  \/ EnterLoop
  \/ (eof /\ KeyEndOfInput)
  \/ Finally
  \/ RunExit

\* a run in which the process goes on whenever it does not wait for a key
FairSpec == Spec /\ WF_vars(Scheduled)

(***************************************************************************)
(* Properties of a run (Spec).                                             *)
(***************************************************************************)
\* C1: selected_idx is an index of filtered_history whenever that list is
\* non-empty, and 0 when it is empty.
C1_SelectionInRange ==
  /\ filtered_history # <<>> => (0 <= selected_idx /\ selected_idx < Len(filtered_history))
  /\ filtered_history = <<>> => selected_idx = 0

\* the selection sits on the last row of a list that a query has shortened
C1_Witness ==
  /\ pc = "loop"
  /\ query # <<>>
  /\ Len(filtered_history) < Len(history)
  /\ selected_idx > 0
  /\ selected_idx = Len(filtered_history) - 1

\* C2: in every state of the session, the first included, the filtered view
\* is the whole of filter(history, query), never cut to max_display.
C2_FilteredIsFullFilter ==
  pc = "loop" => filtered_history = filter_history(history, query)

\* C7: the executor is invoked at most once, only by a confirm event on a
\* non-empty filtered view and with filtered_history[selected_idx]; no input
\* is processed after it, and never in a session ended by cancel.
C7_ExecutorOnce ==
  /\ [](Len(executed) <= 1)
  /\ [](raised = "KeyboardInterrupt" => executed = <<>>)
  /\ [][executed' # executed =>
          /\ pc = "loop"
          /\ char' \in {"CR", "LF"}
          /\ filtered_history # <<>>
          /\ executed' = Append(executed, filtered_history[selected_idx + 1])
          /\ pc' = "finally"]_vars
  /\ [][executed # <<>> =>
          UNCHANGED <<char, next1, next2, eof, query, selected_idx, filtered_history>>]_vars

\* a command other than the first of the list was executed and the process
\* has exited
C7_Witness ==
  /\ pc = "exited"
  /\ Len(executed) = 1
  /\ selected_idx > 0
  /\ executed[1] = filtered_history[selected_idx + 1]

\* C8: once the loop has been left, by confirm, by cancel or by an
\* exception, the terminal mode is the one saved before raw mode.
C8_TerminalRestored ==
  (pc \in {"left", "exited"} /\ old_settings # "unset") => termios = old_settings

\* the loop ran in raw mode and was left by an exception
C8_Witness ==
  /\ pc = "left"
  /\ raised = "Exception"
  /\ char # "none"
  /\ termios = "cbreak"

\* C9 as claimed: every 0x03 byte read, also as next1 or next2, cancels the
\* session: nothing is executed and the process exits with status 0.
C9_EveryCtrlCByteCancels ==
  (char = "ETX" \/ next1 = "ETX" \/ next2 = "ETX") =>
    /\ raised = "KeyboardInterrupt"
    /\ pc \in {"finally", "left", "exited"}
    /\ executed = <<>>
    /\ pc = "exited" => exit_status = 0

\* C9 amended: a 0x03 byte read as the first byte of an event cancels the
\* session: nothing is executed and the process exits with status 0.
C9_CtrlCEventCancels ==
  char = "ETX" =>
    /\ raised = "KeyboardInterrupt"
    /\ pc \in {"finally", "left", "exited"}
    /\ executed = <<>>
    /\ pc = "exited" => exit_status = 0

\* Ctrl+C was read after the query had been edited, and the process exited
C9_Witness ==
  /\ char = "ETX"
  /\ query # <<>>
  /\ pc = "exited"
  /\ exit_status = 0

\* C11: when load_history returns no command the process exits with status 1
\* before the loop: the terminal is never put into raw mode (nor its mode
\* saved), no byte is read and no command is executed.
C11_EmptyHistoryExits ==
  (pc # "start" /\ history = <<>>) =>
    /\ pc = "exited"
    /\ exit_status = 1
    /\ termios # "raw"
    /\ old_settings = "unset"
    /\ char = "none"
    /\ ~eof
    /\ executed = <<>>

\* the history files held blank lines only
C11_Witness ==
  /\ pc = "exited"
  /\ parsed # <<>>
  /\ history = <<>>
  /\ exit_status = 1

\* C12: with a non-empty history the process exits with status 0 when the
\* session was cancelled and when a command was confirmed and executed,
\* whatever runner.execute returned.
C12_ExitZero ==
  (pc = "exited" /\ history # <<>> /\ (raised = "KeyboardInterrupt" \/ executed # <<>>)) =>
    exit_status = 0

\* the executed command failed and the process has exited
C12_Witness ==
  /\ pc = "exited"
  /\ executed # <<>>
  /\ exec_ok = "false"
  /\ exit_status = 0

\* C14: n >= 1 printable characters typed from the initial state and then n
\* backspaces, nothing else, give an empty query, the whole history as the
\* filtered view and a selected_idx in range.
C14_TypeThenErase ==
  (keys.typed >= 1 /\ keys.erased = keys.typed) =>
    /\ query = <<>>
    /\ filtered_history = history
    /\ 0 <= selected_idx
    /\ selected_idx < Len(history)

\* two characters typed and erased over a history longer than max_display
C14_Witness ==
  /\ pc = "loop"
  /\ keys.typed = 2
  /\ keys.erased = 2
  /\ Len(history) > max_display
  /\ char = "DEL"

Min(a, b) == IF a <= b THEN a ELSE b

\* a step of the loop that reads a key event starting with the byte b
KeyStep(b) == pc = "loop" /\ raised' = raised /\ char' = b

\* the step reads ESC [ B
DownStep == KeyStep("ESC") /\ next1' = "[" /\ next2' = "B"

\* C17 as claimed: a move-down event sets selected_idx to
\* min(len(filtered_history) - 1, selected_idx + 1), also on an empty list.
C17_DownIsMin ==
  [][DownStep => selected_idx' = Min(Len(filtered_history) - 1, selected_idx + 1)]_vars

\* C17 amended: on a non-empty list a move-down event sets selected_idx to
\* min(len(filtered_history) - 1, selected_idx + 1); on an empty list it
\* leaves selected_idx as it is.
C17_DownIsMinUnlessEmpty ==
  [][DownStep =>
       selected_idx' = IF filtered_history = <<>>
                       THEN selected_idx
                       ELSE Min(Len(filtered_history) - 1, selected_idx + 1)]_vars

\* a move-down event was read on an empty list
C17_Witness ==
  /\ pc = "loop"
  /\ char = "ESC"
  /\ next1 = "["
  /\ next2 = "B"
  /\ filtered_history = <<>>
  /\ selected_idx = 0

\* C19: after ESC two more bytes are read as one event: ESC [ A moves up,
\* ESC [ B moves down, any other pair changes nothing; the query and the
\* filtered view are never changed and the loop goes on.
C19_EscapeSequence ==
  [][KeyStep("ESC") =>
       /\ next1' # "none"
       /\ next2' # "none"
       /\ query' = query
       /\ filtered_history' = filtered_history
       /\ pc' = "loop"
       /\ selected_idx' =
            IF next1' = "[" /\ next2' = "A" THEN Max(0, selected_idx - 1)
            ELSE IF next1' = "[" /\ next2' = "B" /\ filtered_history # <<>>
                 THEN Min(Len(filtered_history) - 1, selected_idx + 1)
                 ELSE selected_idx]_vars

\* ESC A B was read, with a query typed and a selection below the first row
C19_Witness ==
  /\ pc = "loop"
  /\ char = "ESC"
  /\ next1 = "A"
  /\ next2 = "B"
  /\ query # <<>>
  /\ selected_idx > 0

\* C20: Enter on an empty filtered view does not end the session: nothing
\* is executed, query, view and selected_idx stay and the loop goes on.
C20_EnterOnEmptyIgnored ==
  [][((KeyStep("CR") \/ KeyStep("LF")) /\ filtered_history = <<>>) =>
       /\ pc' = "loop"
       /\ UNCHANGED <<query, filtered_history, selected_idx, executed, exec_ok,
                      termios, exit_status>>]_vars

\* Enter was read while no command matched the query
C20_Witness ==
  /\ pc = "loop"
  /\ char \in {"CR", "LF"}
  /\ query # <<>>
  /\ filtered_history = <<>>
  /\ executed = <<>>

\* C21: a backspace read while the query is empty changes nothing of the
\* selection state: the query stays empty, the filtered view and
\* selected_idx keep their values (no _update_filter), and the loop goes on.
C21_BackspaceOnEmptyQuery ==
  [][(KeyStep("DEL") /\ query = <<>>) =>
       /\ pc' = "loop"
       /\ UNCHANGED <<query, filtered_history, selected_idx, history, executed>>]_vars

\* backspace was read on the empty query while the view still was the first
\* max_display commands of a longer history, the selection below the first
C21_Witness ==
  /\ pc = "loop"
  /\ char = "DEL"
  /\ query = <<>>
  /\ Len(filtered_history) < Len(history)
  /\ selected_idx > 0

\* C22: the terminal has been restored from raw mode before the confirmed
\* command is executed: in the step that hands the command to the executor
\* the terminal is not in raw mode.
C22_RestoredBeforeExecute ==
  [][executed' # executed => (termios # "raw" /\ termios' # "raw")]_vars

\* C23: whenever the filtered view is non-empty the highlighted row is one
\* of the rows that _render_ui draws:
\* selected_idx < min(len(filtered_history), max_display).
C23_SelectionDisplayed ==
  filtered_history # <<>> => selected_idx < Min(Len(filtered_history), max_display)

\* C24: once the input has ended (a read returned '') the loop eventually
\* stops and the terminal is restored.
C24_EndOfInputStops ==
  eof ~> (pc \in {"left", "exited"} /\ termios = old_settings)

(***************************************************************************)
(* Properties of the HistoryLoader methods (SpecLoader).                   *)
(***************************************************************************)
\* p is a subsequence of t: strictly increasing positions of t carry p
IsSubsequence(p, t) ==
  \E f \in [1..Len(p) -> 1..Len(t)] :
    /\ \A i, j \in 1..Len(p) : i < j => f[i] < f[j]
    /\ \A k \in 1..Len(p) : t[f[k]] = p[k]

Returned(fn) == returned /\ call.fn = fn

\* C3: filter_history(history, query) is exactly the commands of history
\* that fuzzy-match the query (case-insensitively), each as often as in
\* history and in history's order; for the empty query it is history.
C3_FilterExactInOrder ==
  Returned("filter_history") =>
    LET h == call.history
        q == call.query
        Matching == {i \in 1..Len(h) : IsSubsequence(lower(q), lower(h[i]))}
    IN /\ \E f \in [1..Len(ret) -> 1..Len(h)] :
            /\ \A i, j \in 1..Len(ret) : i < j => f[i] < f[j]
            /\ {f[k] : k \in 1..Len(ret)} = Matching
            /\ \A k \in 1..Len(ret) : ret[k] = h[f[k]]
       /\ q = <<>> => ret = h

\* a non-empty query kept two different commands and dropped another
C3_Witness ==
  /\ Returned("filter_history")
  /\ call.query # <<>>
  /\ Len(ret) >= 2
  /\ Len(ret) < Len(call.history)
  /\ ret[1] # ret[2]

\* C4: _fuzzy_match(text, pattern) is true iff pattern is a subsequence of
\* text; true for the empty pattern, false for a non-empty pattern longer
\* than text.
C4_GreedyIsSubsequence ==
  Returned("_fuzzy_match") =>
    /\ ret = IsSubsequence(call.pattern, call.text)
    /\ call.pattern = <<>> => ret
    /\ (call.pattern # <<>> /\ Len(call.pattern) > Len(call.text)) => ~ret

\* a repeated pattern character whose occurrences in text are too few:
\* every pattern character occurs in text, yet the match fails
C4_Witness ==
  /\ Returned("_fuzzy_match")
  /\ \E i, j \in 1..Len(call.pattern) : i < j /\ call.pattern[i] = call.pattern[j]
  /\ Len(call.pattern) <= Len(call.text)
  /\ Range(call.pattern) \subseteq Range(call.text)
  /\ ret = FALSE

\* position of the last use of cmd in the parsed commands
LastUse(commands, cmd) ==
  CHOOSE k \in 1..Len(commands) :
    /\ commands[k] = cmd
    /\ \A m \in 1..Len(commands) : commands[m] = cmd => m <= k

\* C5: load_history returns the commands most-recent-first: a command whose
\* last use is later in the parsed commands comes earlier in the result.
C5_MostRecentFirst ==
  Returned("load_history") =>
    \A i, j \in 1..Len(ret) :
      i < j => LastUse(call.commands, ret[i]) > LastUse(call.commands, ret[j])

\* C6: the result of load_history has no duplicate and no empty string and
\* holds every distinct non-empty parsed command.
C6_UniqueNonEmptyComplete ==
  Returned("load_history") =>
    /\ \A i, j \in 1..Len(ret) : i # j => ret[i] # ret[j]
    /\ \A i \in 1..Len(ret) : ret[i] # <<>>
    /\ Range(ret) = Range(call.commands) \ {<<>>}

\* the parsed commands held a repeated command and an empty string
C6_Witness ==
  /\ Returned("load_history")
  /\ <<>> \in Range(call.commands)
  /\ \E i, j \in 1..Len(call.commands) :
       i # j /\ call.commands[i] = call.commands[j] /\ call.commands[i] # <<>>
  /\ Len(ret) >= 2

\* the characters that lower to the same character as c
CaseForms(c) == {d \in Letters \cup {"B"} : LowerChar(d) = LowerChar(c)}

\* the strings that differ from q only in the case of letters
CaseVariants(q) ==
  {v \in [1..Len(q) -> Letters \cup {"B"}] : \A i \in 1..Len(q) : v[i] \in CaseForms(q[i])}

FoldedMatch(cmd, q) == _fuzzy_match(lower(cmd), lower(q))

\* C10: filter_history selects the same commands for every case variant of
\* the query; a command is selected iff its lowered form fuzzy-matches the
\* lowered query, and it is returned as it is written in history.
C10_CaseInsensitive ==
  Returned("filter_history") =>
    /\ \A v \in CaseVariants(call.query) : filter_history(call.history, v) = ret
    /\ ret = SelectSeq(call.history, LAMBDA cmd : FoldedMatch(cmd, call.query))

\* an upper-case query selected a command written with an upper-case letter
\* and one written without
C10_Witness ==
  /\ Returned("filter_history")
  /\ \E i \in 1..Len(call.query) : LowerChar(call.query[i]) # call.query[i]
  /\ \E k \in 1..Len(ret) : ret[k] # lower(ret[k])
  /\ \E k \in 1..Len(ret) : ret[k] = lower(ret[k])

\* the files of the call that were read to the end
RECURSIVE ReadableFiles(_)
ReadableFiles(files) ==
  IF files = <<>> THEN <<>>
  ELSE IF Head(files).fail_at < 0
       THEN <<Head(files)>> \o ReadableFiles(Tail(files))
       ELSE ReadableFiles(Tail(files))

\* the commands of all the lines of the files, one file after the other
RECURSIVE AllCommands(_)
AllCommands(files) ==
  IF files = <<>> THEN <<>> ELSE Head(files).commands \o AllCommands(Tail(files))

C18_MatcherFoldsCase ==
  Returned("_fuzzy_match") =>
    ret = _fuzzy_match(lower(call.text), lower(call.pattern))

\* C18 amended: _fuzzy_match compares the characters as they are: a match
\* needs every pattern character in text in the same case, and it implies
\* that the lowered pattern is a subsequence of the lowered text.
C18_MatcherExact ==
  (Returned("_fuzzy_match") /\ ret) =>
    /\ Range(call.pattern) \subseteq Range(call.text)
    /\ IsSubsequence(lower(call.pattern), lower(call.text))

\* text and pattern match once lowered, and do not match as they are
C18_Witness ==
  /\ Returned("_fuzzy_match")
  /\ ret = FALSE
  /\ call.pattern # <<>>
  /\ IsSubsequence(lower(call.pattern), lower(call.text))

(***************************************************************************)
(* Properties of CommandRunner.execute (SpecRunner).                       *)
(***************************************************************************)
\* C15: with logging on and the log write failing, execute raises nothing,
\* hands the command to subprocess.run exactly once and returns what it
\* returns when the log write succeeds.
C15_LogFailureSwallowed ==
  (Returned("execute") /\ call.log /\ call.log_fails) =>
    /\ ~ret.raises
    /\ ret.runs = <<call.command>>
    /\ ret.value = execute(call.command, call.log, call.log_file, FALSE, call.outcome).value

\* the log write failed and the command ran and exited with status 0
C15_Witness ==
  /\ Returned("execute")
  /\ call.log
  /\ call.log_fails
  /\ ~call.outcome.raises
  /\ call.outcome.returncode = 0
  /\ ret.value = TRUE

\* C16: execute returns true iff the command was run and exited with status
\* 0; a non-zero status or a failure to start it gives false, and no
\* exception leaves the call.
C16_TrueIffExitZero ==
  Returned("execute") =>
    /\ ~ret.raises
    /\ ret.value = (~call.outcome.raises /\ call.outcome.returncode = 0)
    /\ ret.runs = <<call.command>>

\* the command ran and exited with a non-zero status
C16_Witness ==
  /\ Returned("execute")
  /\ ~call.outcome.raises
  /\ call.outcome.returncode # 0
  /\ ret.value = FALSE

====
